---- MODULE Spec2Model ----
(***************************************************************************)
(* Model of mdtranslate.py: a command-line program that reads one Markdown *)
(* file, asks a chat-completion service to translate it, writes the reply  *)
(* to <stem>_cn.md / <stem>_en.md and asks the service to assess it.       *)
(*                                                                         *)
(* Text (paths and file contents) is a sequence of one-character strings;  *)
(* "LF" and "CR" stand for the line feed and carriage return characters.   *)
(***************************************************************************)
EXTENDS Integers, Sequences, FiniteSets, TLC

VARIABLES
    has_key,             \* OPENAI_API_KEY is set in the environment
    argv_file,           \* args.file
    to_cn_flag,          \* args.to_cn
    to_en_flag,          \* args.to_en
    fs0,                 \* the file system when the process starts
    fs,                  \* the file system: path -> [kind, data]
    pc,                  \* position of the single thread of control
    to_cn,               \* process_file's parameter to_cn
    target_lang,         \* process_file's local target_lang
    suffix,              \* process_file's local suffix
    translated_filename, \* process_file's local translated_filename
    original_content,    \* process_file's local original_content
    translated_content,  \* process_file's local translated_content
    requests,            \* chat-completion requests issued, in order
    responses,           \* completions the service returned, in order
    steps,               \* the steps of process_file's try block begun, in order
    opened,              \* paths opened for writing, in order
    stdout,              \* lines printed to standard output, in order
    failed_at,           \* the step that raised, "" while none has
    exit_code            \* the process's exit status, -1 while it runs

vars == <<has_key, argv_file, to_cn_flag, to_en_flag, fs0, fs, pc, to_cn,
          target_lang, suffix, translated_filename, original_content,
          translated_content, requests, responses, steps, opened, stdout,
          failed_at, exit_code>>

(***************************************************************************)
(* Bounds of the model.                                                    *)
(***************************************************************************)
MaxPathLen == 3
MaxFileLen == 2
MaxReplyLen == 1

SeqsUpTo(S, n) == UNION {[1..k -> S] : k \in 0..n}

PathChars == {"a", ".", "/"}
TextChars == {"x", "CR", "LF"}
ReplyChars == {"x", "LF"}

\* Longer command-line paths of interest: the spec's "doc.md", a path with a
\* directory part and an extension, and a name with two extensions.
ExamplePaths ==
    { <<"d", "o", "c", ".", "m", "d">>,
      <<"a", "/", "a", ".", "a">>,
      <<"a", ".", "a", ".", "a">> }

ArgFiles == SeqsUpTo(PathChars, MaxPathLen) \cup ExamplePaths
FileTexts == SeqsUpTo(TextChars, MaxFileLen)
Replies == SeqsUpTo(ReplyChars, MaxReplyLen)

Unset == <<"<unset>">>
OldContent == <<"o", "l", "d">>
Report == <<"r", "e", "p", "o", "r", "t">>

(***************************************************************************)
(* pathlib.Path(filename).stem, as process_file uses it (POSIX flavour).   *)
(***************************************************************************)
RECURSIVE SplitOn(_, _)
SplitOn(s, sep) ==
    IF \A i \in 1..Len(s) : s[i] # sep
    THEN <<s>>
    ELSE LET i == CHOOSE k \in 1..Len(s) :
                      s[k] = sep /\ \A j \in 1..(k - 1) : s[j] # sep
         IN <<SubSeq(s, 1, i - 1)>> \o SplitOn(SubSeq(s, i + 1, Len(s)), sep)

IsPart(c) == c # <<>> /\ c # <<".">>

\* Path.name: the last component; empty and "." components are dropped.
PathName(p) ==
    LET parts == SelectSeq(SplitOn(p, "/"), IsPart)
    IN IF parts = <<>> THEN <<>> ELSE parts[Len(parts)]

\* str.rfind, 1-based; 0 when ch does not occur.
RFind(s, ch) ==
    IF \E i \in 1..Len(s) : s[i] = ch
    THEN CHOOSE i \in 1..Len(s) : s[i] = ch /\ \A j \in (i + 1)..Len(s) : s[j] # ch
    ELSE 0

\* str.find, 1-based; 0 when ch does not occur.
Find(s, ch) ==
    IF \E i \in 1..Len(s) : s[i] = ch
    THEN CHOOSE i \in 1..Len(s) : s[i] = ch /\ \A j \in 1..(i - 1) : s[j] # ch
    ELSE 0

\* A plausible slip: cut at the first dot instead of the last.
StemFirstDot(p) ==
    LET name == PathName(p)
        i == Find(name, ".")
    IN IF 1 < i /\ i < Len(name) THEN SubSeq(name, 1, i - 1) ELSE name

\* Path.stem: name[:i] for i = name.rfind('.') when 0 < i < len(name) - 1
\* (0-based), the whole name otherwise.
Stem(p) ==
    LET name == PathName(p)
        i == RFind(name, ".")
    IN IF 1 < i /\ i < Len(name) THEN SubSeq(name, 1, i - 1) ELSE name

CnSuffix == <<"_", "c", "n", ".", "m", "d">>
EnSuffix == <<"_", "e", "n", ".", "m", "d">>

\* process_file line 66.
TargetLang(tocn) == IF tocn THEN "zh-cn" ELSE "en"

\* process_file line 67.
Suffix(tocn) == IF tocn THEN CnSuffix ELSE EnSuffix

\* A plausible slip: the output placed next to the input file
\* (file_path.with_name(...)) instead of in the working directory.
RECURSIVE JoinParts(_)
JoinParts(parts) ==
    IF parts = <<>> THEN <<>>
    ELSE parts[1] \o <<"/">> \o JoinParts(Tail(parts))

TranslatedFilenameBesideInput(p, sfx) ==
    LET parts == SelectSeq(SplitOn(p, "/"), IsPart)
        dirs == IF parts = <<>> THEN <<>> ELSE SubSeq(parts, 1, Len(parts) - 1)
    IN JoinParts(dirs) \o Stem(p) \o sfx

\* process_file lines 69-70: file_path.stem + suffix.
TranslatedFilename(p, sfx) == Stem(p) \o sfx

(***************************************************************************)
(* Text-mode file I/O (open(..., encoding="utf-8"), newline=None).         *)
(***************************************************************************)
\* Reading: universal newlines, "\r\n" and "\r" become "\n".
RECURSIVE FileRead(_)
FileRead(data) ==
    IF data = <<>> THEN <<>>
    ELSE IF Head(data) = "CR"
         THEN IF Len(data) >= 2 /\ data[2] = "LF"
              THEN <<"LF">> \o FileRead(SubSeq(data, 3, Len(data)))
              ELSE <<"LF">> \o FileRead(Tail(data))
         ELSE <<Head(data)>> \o FileRead(Tail(data))

\* os.linesep on the POSIX platform the program runs on.
LineSep == <<"LF">>

\* A plausible slip: writing translated_content.strip().
IsSpace(c) == c \in {"LF", "CR"}
RECURSIVE LStrip(_)
LStrip(s) == IF s # <<>> /\ IsSpace(Head(s)) THEN LStrip(Tail(s)) ELSE s
RECURSIVE RStrip(_)
RStrip(s) ==
    IF s # <<>> /\ IsSpace(s[Len(s)]) THEN RStrip(SubSeq(s, 1, Len(s) - 1)) ELSE s
FileWriteStripped(text) == RStrip(LStrip(text))

\* Writing: each "\n" is written as os.linesep, everything else as it is.
RECURSIVE FileWrite(_)
FileWrite(text) ==
    IF text = <<>> THEN <<>>
    ELSE (IF Head(text) = "LF" THEN LineSep ELSE <<Head(text)>>)
         \o FileWrite(Tail(text))

\* os.path.exists
Exists(p) == p \in DOMAIN fs

File(data) == [kind |-> "file", data |-> data]

\* fs with path p created or truncated and holding data.
Store(f, p, data) ==
    [q \in DOMAIN f \cup {p} |-> IF q = p THEN File(data) ELSE f[q]]

\* fs without path p.
Remove(f, p) == [q \in DOMAIN f \ {p} |-> f[q]]

(***************************************************************************)
(* The two chat-completion requests.                                       *)
(***************************************************************************)
\* translate_text line 30: the language name in the system message.
LanguageName(lang) == IF lang = "zh-cn" THEN "Simplified Chinese" ELSE "English"

\* A plausible slip: the comparison of line 44 inverted.
DirectionInverted(lang) ==
    IF lang = "en" THEN "English to Chinese" ELSE "Chinese to English"

\* verify_translation line 44.
Direction(lang) ==
    IF lang = "en" THEN "Chinese to English" ELSE "English to Chinese"

\* translate_text lines 25-37: system message and user payload.
TranslateRequest(content, lang) ==
    [api |-> "translate", label |-> LanguageName(lang),
     original |-> content, translated |-> Unset]

\* verify_translation lines 46-61.
VerifyRequest(original, translated, lang) ==
    [api |-> "verify", label |-> Direction(lang),
     original |-> original, translated |-> translated]

Line(kind, file, out) == [kind |-> kind, file |-> file, out |-> out]

\* process_file lines 88-89: print the error; the function then returns.
ErrorLine(filename) == Line("error", filename, <<>>)

(***************************************************************************)
(* Initial states: an environment, a command line and a file system.       *)
(***************************************************************************)
RawLast(p) == LET cs == SplitOn(p, "/") IN cs[Len(cs)]

\* The path can name a regular file.
CanBeFile(p) == RawLast(p) \notin {<<>>, <<".">>, <<".", ".">>}

\* The path names the working directory, its parent or the root.
AlwaysDir(p) ==
    /\ p # <<>>
    /\ \A i \in 1..Len(SplitOn(p, "/")) :
          SplitOn(p, "/")[i] \in {<<>>, <<".">>, <<".", ".">>}

\* What the path given on the command line can be when it exists.
Entries(p) ==
    (IF CanBeFile(p)
     THEN {File(d) : d \in FileTexts}
          \cup {[kind |-> k, data |-> <<>>] : k \in {"noperm", "badutf8"}}
     ELSE {})
    \cup (IF p # <<>> THEN {[kind |-> "dir", data |-> <<>>]} ELSE {})

Empty == [q \in {} |-> File(<<>>)]

\* Output files left by an earlier run.
Leftovers(p) ==
    [q \in {TranslatedFilename(p, CnSuffix), TranslatedFilename(p, EnSuffix)}
        |-> File(OldContent)]

Put(f, p, entry) == [q \in DOMAIN f \cup {p} |-> IF q = p THEN entry ELSE f[q]]

FileSystems(p) ==
    LET bases == {Empty, Leftovers(p)}
    IN (IF AlwaysDir(p) THEN {} ELSE bases)
       \cup {Put(b, p, e) : b \in bases, e \in Entries(p)}

Init ==
    /\ has_key \in BOOLEAN
    /\ argv_file \in ArgFiles
    /\ to_cn_flag \in BOOLEAN
    /\ to_en_flag \in BOOLEAN
    /\ fs0 \in FileSystems(argv_file)
    /\ fs = fs0
    /\ pc = "start"
    /\ to_cn = TRUE
    /\ target_lang = ""
    /\ suffix = Unset
    /\ translated_filename = Unset
    /\ original_content = Unset
    /\ translated_content = Unset
    /\ requests = <<>>
    /\ responses = <<>>
    /\ steps = <<>>
    /\ opened = <<>>
    /\ stdout = <<>>
    /\ failed_at = ""
    /\ exit_code = -1

(***************************************************************************)
(* Module level, lines 10-15: without the key the import raises ValueError *)
(* and the interpreter exits with status 1 before main runs.               *)
(***************************************************************************)
LoadModule ==
    /\ pc = "start"
    /\ IF has_key
       THEN /\ pc' = "main"
            /\ UNCHANGED <<failed_at, exit_code>>
       ELSE /\ pc' = "done"
            /\ failed_at' = "credential"
            /\ exit_code' = 1
    /\ UNCHANGED <<has_key, argv_file, to_cn_flag, to_en_flag, fs0, fs, to_cn,
                   target_lang, suffix, translated_filename, original_content,
                   translated_content, requests, responses, steps, opened,
                   stdout>>

(***************************************************************************)
(* main, lines 97-103.                                                     *)
(***************************************************************************)
\* A plausible slip: the existence check left out.
InputMissingUnchecked == FALSE

\* main line 99: not os.path.exists(args.file).
InputMissing == ~Exists(argv_file)

\* A plausible slip: to_cn=args.to_cn.
ToCnFromFlag(cn, en) == cn

\* main line 103: to_cn=not args.to_en.
ToCn(cn, en) == ~en

Main ==
    /\ pc = "main"
    /\ IF InputMissing
       THEN /\ stdout' = Append(stdout, Line("notfound", argv_file, <<>>))
            /\ failed_at' = "notfound"
            /\ exit_code' = 1
            /\ pc' = "done"
            /\ UNCHANGED to_cn
       ELSE /\ to_cn' = ToCn(to_cn_flag, to_en_flag)
            /\ pc' = "process_file"
            /\ UNCHANGED <<stdout, failed_at, exit_code>>
    /\ UNCHANGED <<has_key, argv_file, to_cn_flag, to_en_flag, fs0, fs,
                   target_lang, suffix, translated_filename, original_content,
                   translated_content, requests, responses, steps, opened>>

(***************************************************************************)
(* process_file, lines 64-89.                                              *)
(***************************************************************************)
\* Lines 66-70.
ProcessFileBegin ==
    /\ pc = "process_file"
    /\ target_lang' = TargetLang(to_cn)
    /\ suffix' = Suffix(to_cn)
    /\ translated_filename' = TranslatedFilename(argv_file, Suffix(to_cn))
    /\ pc' = "read"
    /\ UNCHANGED <<has_key, argv_file, to_cn_flag, to_en_flag, fs0, fs, to_cn,
                   original_content, translated_content, requests, responses,
                   steps, opened, stdout, failed_at, exit_code>>

\* A plausible slip: the handler re-raises, and the process exits with 1.
ExceptReraise(printed) ==
    /\ stdout' = Append(printed, ErrorLine(argv_file))
    /\ exit_code' = 1
    /\ pc' = "done"

\* Lines 88-89: the exception is printed and process_file returns.
Except(printed) ==
    /\ stdout' = Append(printed, ErrorLine(argv_file))
    /\ exit_code' = exit_code
    /\ pc' = "return"

\* open(filename, "r") or f.read() can succeed.
Readable == Exists(argv_file) /\ fs[argv_file].kind = "file"

\* A plausible slip: a failed read treated as an empty document.
ReadRaisesIgnored ==
    /\ failed_at' = "read"
    /\ original_content' = <<>>
    /\ pc' = "translate"
    /\ UNCHANGED <<stdout, exit_code>>

\* Lines 73-74 raise (a directory, no permission, invalid UTF-8, no file).
ReadRaises ==
    /\ failed_at' = "read"
    /\ Except(stdout)
    /\ UNCHANGED original_content

\* Lines 73-74.
Read ==
    /\ pc = "read"
    /\ steps' = Append(steps, "read")
    /\ IF Readable
       THEN /\ original_content' = FileRead(fs[argv_file].data)
            /\ pc' = "translate"
            /\ UNCHANGED <<stdout, failed_at, exit_code>>
       ELSE ReadRaises
    /\ UNCHANGED <<has_key, argv_file, to_cn_flag, to_en_flag, fs0, fs, to_cn,
                   target_lang, suffix, translated_filename, translated_content,
                   requests, responses, opened>>

\* A plausible slip: a failed translation treated as an empty one.
TranslateRaisesIgnored ==
    /\ failed_at' = "translate"
    /\ translated_content' = <<>>
    /\ pc' = "write"
    /\ UNCHANGED <<responses, stdout, exit_code>>

\* A plausible slip: the request is sent again after a first failure.
TranslateRaisesRetry ==
    /\ failed_at' = "translate"
    /\ IF Len(requests) = 0
       THEN pc' = "translate" /\ UNCHANGED <<stdout, exit_code>>
       ELSE Except(stdout)
    /\ UNCHANGED <<translated_content, responses>>

\* Line 76: translate_text raises (transport or service error).
TranslateRaises ==
    /\ failed_at' = "translate"
    /\ Except(stdout)
    /\ UNCHANGED <<translated_content, responses>>

\* Line 76 with translate_text, lines 21-38.
Translate ==
    /\ pc = "translate"
    /\ steps' = Append(steps, "translate")
    /\ requests' = Append(requests, TranslateRequest(original_content, target_lang))
    /\ \/ \E reply \in Replies :
             /\ responses' = Append(responses, reply)
             /\ translated_content' = reply
             /\ pc' = "write"
             /\ UNCHANGED <<stdout, failed_at, exit_code>>
       \/ TranslateRaises
    /\ UNCHANGED <<has_key, argv_file, to_cn_flag, to_en_flag, fs0, fs, to_cn,
                   target_lang, suffix, translated_filename, original_content,
                   opened>>

\* What a write that fails part-way leaves in the file.
Prefixes(data) == {SubSeq(data, 1, k) : k \in 0..(Len(data) - 1)} \cup {<<>>}

\* Lines 78-81.
Write ==
    /\ pc = "write"
    /\ steps' = Append(steps, "write")
    /\ \/ \* open(translated_filename, "w") raises
          /\ failed_at' = "open"
          /\ Except(stdout)
          /\ UNCHANGED <<fs, opened>>
       \/ \* the file is truncated, then f.write or the close raises
          /\ opened' = Append(opened, translated_filename)
          /\ \E part \in Prefixes(FileWrite(translated_content)) :
                fs' = Store(fs, translated_filename, part)
          /\ failed_at' = "write"
          /\ Except(stdout)
       \/ /\ opened' = Append(opened, translated_filename)
          /\ fs' = Store(fs, translated_filename, FileWrite(translated_content))
          /\ stdout' = Append(stdout,
                              Line("translated", argv_file, translated_filename))
          /\ pc' = "verify"
          /\ UNCHANGED <<failed_at, exit_code>>
    /\ UNCHANGED <<has_key, argv_file, to_cn_flag, to_en_flag, fs0, to_cn,
                   target_lang, suffix, translated_filename, original_content,
                   translated_content, requests, responses>>

\* A plausible slip: the handler deletes the output when verification fails.
VerifyRaisesRollback ==
    /\ failed_at' = "verify"
    /\ Except(Append(stdout, Line("verifying", <<>>, <<>>)))
    /\ fs' = Remove(fs, translated_filename)
    /\ UNCHANGED responses

\* Line 85: verify_translation raises.
VerifyRaises ==
    /\ failed_at' = "verify"
    /\ Except(Append(stdout, Line("verifying", <<>>, <<>>)))
    /\ UNCHANGED <<fs, responses>>

\* Lines 84-86 with verify_translation, lines 40-62.
Verify ==
    /\ pc = "verify"
    /\ steps' = Append(steps, "verify")
    /\ requests' = Append(requests,
            VerifyRequest(original_content, translated_content, target_lang))
    /\ \/ /\ responses' = Append(responses, Report)
          /\ stdout' = stdout \o <<Line("verifying", <<>>, <<>>),
                                   Line("quality", <<>>, Report)>>
          /\ pc' = "return"
          /\ UNCHANGED <<fs, failed_at, exit_code>>
       \/ VerifyRaises
    /\ UNCHANGED <<has_key, argv_file, to_cn_flag, to_en_flag, fs0, to_cn,
                   target_lang, suffix, translated_filename, original_content,
                   translated_content, opened>>

\* process_file returns to main, main returns, the interpreter exits with 0.
Exit ==
    /\ pc = "return"
    /\ pc' = "done"
    /\ exit_code' = 0
    /\ UNCHANGED <<has_key, argv_file, to_cn_flag, to_en_flag, fs0, fs, to_cn,
                   target_lang, suffix, translated_filename, original_content,
                   translated_content, requests, responses, steps, opened,
                   stdout, failed_at>>

Next ==
    \/ LoadModule
    \/ Main
    \/ ProcessFileBegin
    \/ Read
    \/ Translate
    \/ Write
    \/ Verify
    \/ Exit

Spec == Init /\ [][Next]_vars

\* The process is a single thread that is always scheduled, and every
\* blocking call returns or raises.
FairSpec == Spec /\ WF_vars(Next)

(***************************************************************************)
(* Vocabulary of the properties.                                           *)
(***************************************************************************)
Range(q) == {q[i] : i \in 1..Len(q)}

Calls(api) == {i \in 1..Len(requests) : requests[i].api = api}

NoSlash(p) == \A i \in 1..Len(p) : p[i] # "/"

InputExisted == argv_file \in DOMAIN fs0

\* The write of lines 78-79 completed: line 81 printed its confirmation.
WriteCompleted == \E i \in 1..Len(stdout) : stdout[i].kind = "translated"

\* Every file but the output file is as it was when the process started.
OthersUntouched ==
    /\ DOMAIN fs \subseteq DOMAIN fs0 \cup {translated_filename}
    /\ \A q \in DOMAIN fs0 : q # translated_filename => q \in DOMAIN fs /\ fs[q] = fs0[q]

\* s is name without its last extension: name = s "." ext with s not empty
\* and ext not empty and free of dots; or name itself when it has no such form.
HasExtensionAt(name, k) ==
    /\ 1 < k /\ k < Len(name)
    /\ name[k] = "."
    /\ \A j \in (k + 1)..Len(name) : name[j] # "."

IsStemOf(s, name) ==
    \/ \E k \in 1..Len(name) : HasExtensionAt(name, k) /\ s = SubSeq(name, 1, k - 1)
    \/ (\A k \in 1..Len(name) : ~HasExtensionAt(name, k)) /\ s = name

ExpectedSuffix == IF to_en_flag THEN EnSuffix ELSE CnSuffix

IsPrefixOf(a, b) == Len(a) <= Len(b) /\ a = SubSeq(b, 1, Len(a))

(***************************************************************************)
(* Properties.                                                             *)
(***************************************************************************)

\* C1: once the Translator step has failed, no file has been opened for
\* writing, the file system is as it was at the start, and neither the write
\* step nor the Verifier call has happened.
C1_TranslatorFailureStopsPipeline ==
    failed_at = "translate" =>
        /\ opened = <<>>
        /\ fs = fs0
        /\ Calls("verify") = {}
        /\ steps = <<"read", "translate">>

C1_Witness ==
    /\ pc = "done"
    /\ failed_at = "translate"
    /\ translated_filename \in DOMAIN fs0

\* C2: once the Verifier step has failed, the output file exists and holds
\* exactly the Translator's result, and no other file was created, changed
\* or deleted.
C2_VerifierFailureKeepsOutput ==
    failed_at = "verify" =>
        /\ translated_filename \in DOMAIN fs
        /\ fs[translated_filename] = File(translated_content)
        /\ translated_content = responses[1]
        /\ OthersUntouched

C2_Witness ==
    /\ pc = "done"
    /\ failed_at = "verify"
    /\ translated_content = <<"LF">>

\* C3: when the input path does not exist, no request is ever issued, no
\* step of process_file runs, no file is written, and the process ends with
\* status 1 after printing the not-found error.
C3_MissingInputExitsOne ==
    ~InputExisted =>
        /\ requests = <<>>
        /\ steps = <<>>
        /\ opened = <<>>
        /\ fs = fs0
        /\ pc = "done" =>
              /\ exit_code = 1
              /\ has_key => stdout = <<Line("notfound", argv_file, <<>>)>>

C3_Witness ==
    /\ pc = "done"
    /\ has_key
    /\ ~InputExisted
    /\ argv_file = <<"d", "o", "c", ".", "m", "d">>
    /\ exit_code = 1

\* C4: once the output file has been written, its content is exactly the
\* completion the service returned for the translation request, and the
\* translation handed to the Verifier is that same text.
C4_OutputIsTranslatorResult ==
    WriteCompleted =>
        /\ translated_filename \in DOMAIN fs
        /\ fs[translated_filename] = File(responses[1])
        /\ \A i \in Calls("verify") :
              /\ requests[i].translated = responses[1]
              /\ requests[i].original = FileRead(fs0[argv_file].data)
        /\ \A i \in Calls("translate") :
              requests[i].original = FileRead(fs0[argv_file].data)

C4_Witness ==
    /\ WriteCompleted
    /\ Calls("verify") # {}
    /\ responses[1] = <<"LF">>
    /\ fs0[argv_file].data = <<"CR", "LF">>

\* C5: after a successful translation the output file's name is the stem of
\* the input's final path component followed by "_cn.md" (Chinese direction)
\* or "_en.md" (English direction); "doc.md" gives "doc_cn.md".
C5_OutputFilename ==
    WriteCompleted =>
        /\ \E k \in 0..Len(PathName(argv_file)) :
              /\ IsStemOf(SubSeq(PathName(argv_file), 1, k), PathName(argv_file))
              /\ translated_filename =
                    SubSeq(PathName(argv_file), 1, k) \o ExpectedSuffix
        /\ opened = <<translated_filename>>
        /\ translated_filename \in DOMAIN fs
        /\ (argv_file = <<"d", "o", "c", ".", "m", "d">> /\ ~to_en_flag) =>
              translated_filename = <<"d", "o", "c", "_", "c", "n", ".", "m", "d">>

C5_Witness ==
    /\ WriteCompleted
    /\ argv_file = <<"a", ".", "a", ".", "a">>
    /\ to_en_flag
    /\ translated_filename = <<"a", ".", "a", "_", "e", "n", ".", "m", "d">>

\* C6: the process ends with status 1 when the input path does not exist,
\* and with status 0 when it exists and the key is set, whatever step of
\* process_file failed; a failed step leaves its error line as the last
\* line printed.
C6_ExitCodes ==
    pc = "done" =>
        /\ ~InputExisted => exit_code = 1
        /\ (InputExisted /\ has_key) => exit_code = 0
        /\ failed_at \in {"read", "translate", "open", "write", "verify"} =>
              /\ stdout # <<>>
              /\ stdout[Len(stdout)] = ErrorLine(argv_file)

C6_Witness ==
    /\ pc = "done"
    /\ failed_at = "write"
    /\ exit_code = 0

\* C7 as stated: every invocation that runs writes exactly one file.
C7_ExactlyOneFilePerInvocation ==
    (pc = "done" /\ has_key) => Len(opened) = 1

\* C7 as amended: an invocation writes at most one file, exactly one when
\* the input was read, the Translator returned and the output could be
\* opened, and none otherwise; the file is named <stem>_cn.md or
\* <stem>_en.md and lies in the working directory (its path has no
\* directory part), and no other file is created or changed.
C7_AtMostOneFileInWorkingDirectory ==
    /\ Len(opened) <= 1
    /\ \A i \in 1..Len(opened) :
          /\ opened[i] \in {Stem(argv_file) \o CnSuffix, Stem(argv_file) \o EnSuffix}
          /\ NoSlash(opened[i])
    /\ DOMAIN fs0 \subseteq DOMAIN fs
    /\ \A q \in DOMAIN fs : q \notin Range(opened) => q \in DOMAIN fs0 /\ fs[q] = fs0[q]
    /\ pc = "done" => (Len(opened) = 1 <=> failed_at \in {"", "write", "verify"})

C7_Witness ==
    /\ pc = "done"
    /\ failed_at = ""
    /\ argv_file = <<"a", "/", "a", ".", "a">>
    /\ opened = <<<<"a", "_", "c", "n", ".", "m", "d">>>>

\* C8: the target is English exactly when --to-en is given, whatever --to-cn
\* is, and Simplified Chinese otherwise; the Translator's language name, the
\* Verifier's Direction label and the output suffix all follow that target.
C8_TargetFollowsToEn ==
    /\ target_lang # "" =>
          /\ target_lang = (IF to_en_flag THEN "en" ELSE "zh-cn")
          /\ suffix = ExpectedSuffix
          /\ IsPrefixOf(Stem(argv_file), translated_filename)
          /\ SubSeq(translated_filename, Len(Stem(argv_file)) + 1,
                    Len(translated_filename)) = ExpectedSuffix
    /\ \A i \in Calls("translate") :
          requests[i].label =
              (IF to_en_flag THEN "English" ELSE "Simplified Chinese")
    /\ \A i \in Calls("verify") :
          requests[i].label =
              (IF to_en_flag THEN "Chinese to English" ELSE "English to Chinese")

C8_Witness ==
    /\ to_cn_flag
    /\ to_en_flag
    /\ Calls("verify") # {}
    /\ requests[2].label = "Chinese to English"
    /\ requests[1].label = "English"
    /\ opened # <<>>

\* C9: the steps begun are always an initial part of read, translate, write,
\* verify; at most one Translator and one Verifier request are issued; the
\* write begins only once the Translator has returned; the Verifier request
\* is issued only once the output file holds the whole translation; and
\* every invocation ends.
C9_Order ==
    /\ IsPrefixOf(steps, <<"read", "translate", "write", "verify">>)
    /\ Cardinality(Calls("translate")) <= 1
    /\ Cardinality(Calls("verify")) <= 1
    /\ Len(requests) <= 2
    /\ "write" \in Range(steps) =>
          /\ Len(responses) >= 1
          /\ translated_content = responses[1]
          /\ failed_at \in {"", "open", "write", "verify"}
    /\ Calls("verify") # {} =>
          /\ translated_filename \in DOMAIN fs
          /\ fs[translated_filename] = File(translated_content)

C9_LinearAndTerminates == []C9_Order /\ <>(pc = "done")

C9_Witness ==
    /\ pc = "done"
    /\ steps = <<"read", "translate", "write", "verify">>
    /\ Len(requests) = 2

\* C10: once the read has failed, the error naming the input file is the
\* only line printed, the read was tried once, no request has been issued,
\* and no file has been created or overwritten.
C10_ReadFailureStopsPipeline ==
    failed_at = "read" =>
        /\ stdout = <<ErrorLine(argv_file)>>
        /\ ErrorLine(argv_file).file = argv_file
        /\ steps = <<"read">>
        /\ requests = <<>>
        /\ opened = <<>>
        /\ fs = fs0

C10_Witness ==
    /\ pc = "done"
    /\ failed_at = "read"
    /\ fs0[argv_file].kind = "badutf8"
    /\ translated_filename \in DOMAIN fs0

====
